---------------------------- MODULE Spec2Model ----------------------------
(***************************************************************************)
(* A model of PROJECT/App/views.py: the dashboard view, the CSV parser     *)
(* (_parse_csv), the dataset options (_build_dataset_options) and the      *)
(* radar chart (_build_radar_chart).                                       *)
(*                                                                         *)
(* Text.  TLC reads ASCII strings only, so the Japanese literals of the    *)
(* source are written in romanised form:                                   *)
(*   "jikoshisan"   DEFAULT_HIGHLIGHT_LABEL  (views.py line 8)             *)
(*   "misettei"     the placeholder label    (views.py line 44)            *)
(*   "heikintanka", "hendotanka", "uriagekosu", "uriagedaka", "koteihi",   *)
(*   "keijorieki", "jikoshihon"              (RADAR_ITEMS, lines 9-17)     *)
(* A CSV cell is a sequence of tokens, each a blank " " or a word, so that *)
(* str.strip() is computed and not assumed.  A word is a maximal run of    *)
(* non-blank characters; the cells used here hold at most one word.        *)
(*                                                                         *)
(* Numbers.  A Python float is a record [k, n, d]: k = "fin" is the        *)
(* rational n/d in lowest terms with d > 0, k = "inf" is an infinity of    *)
(* sign n, k = "nan" is not-a-number; k = "none" is Python's None.         *)
(* Finite arithmetic is exact (no rounding), and a finite result above     *)
(* FMax in magnitude overflows to an infinity as IEEE-754 does.            *)
(***************************************************************************)
EXTENDS Integers, Sequences, FiniteSets, TLC

VARIABLES request, pc, exc, rows, headers, periods, idx, table_rows,
          chart_datasets, row_lookup, options, highlight_label,
          radar_labels, radar_datasets, radar_axis_info, context, baseline

vars == <<request, pc, exc, rows, headers, periods, idx, table_rows,
          chart_datasets, row_lookup, options, highlight_label,
          radar_labels, radar_datasets, radar_axis_info, context, baseline>>

(***************************************************************************)
(* Bounds of the model.                                                    *)
(***************************************************************************)
MaxRows == 3
MaxCells == 3
MaxDatasets == 3
MaxSeries == 2
MaxPeriods == 2
MaxScale == 3

(***************************************************************************)
(* Python floats.                                                          *)
(***************************************************************************)
FMax == 1000

Abs(n) == IF n < 0 THEN -n ELSE n

RECURSIVE GCD(_, _)
GCD(a, b) == IF b = 0 THEN a ELSE GCD(b, a % b)

None == [k |-> "none", n |-> 0, d |-> 1]
NaN == [k |-> "nan", n |-> 0, d |-> 1]
Inf(s) == [k |-> "inf", n |-> s, d |-> 1]
Fin(n) == [k |-> "fin", n |-> n, d |-> 1]
ZeroDivisionError == [k |-> "zerodiv", n |-> 0, d |-> 1]

Sign(n) == IF n < 0 THEN -1 ELSE IF n > 0 THEN 1 ELSE 0

\* The float n/d (d # 0): lowest terms, positive denominator, overflow to an infinity.
Rat(n, d) ==
    LET s == IF d < 0 THEN -1 ELSE 1
        g == GCD(Abs(n), Abs(d))
        nn == (s * n) \div g
        dd == (s * d) \div g
    IN  IF Abs(nn) > FMax * dd THEN Inf(Sign(nn))
        ELSE [k |-> "fin", n |-> nn, d |-> dd]

\* abs(v)
FAbs(x) ==
    CASE x.k = "fin" -> [x EXCEPT !.n = Abs(x.n)]
      [] x.k = "inf" -> Inf(1)
      [] OTHER -> x

\* a > b; every comparison with nan is False
FGt(a, b) ==
    CASE a.k = "nan" \/ b.k = "nan" -> FALSE
      [] a.k = "inf" /\ b.k = "inf" -> a.n > b.n
      [] a.k = "inf" -> a.n > 0
      [] b.k = "inf" -> b.n < 0
      [] OTHER -> a.n * b.d > b.n * a.d

\* bool(x) of a float: only 0.0 is false
Truthy(x) == ~(x.k = "fin" /\ x.n = 0)

\* a / b
FDiv(a, b) ==
    CASE b.k = "fin" /\ b.n = 0 -> ZeroDivisionError
      [] a.k = "nan" \/ b.k = "nan" -> NaN
      [] a.k = "inf" /\ b.k = "inf" -> NaN
      [] a.k = "inf" -> Inf(a.n * Sign(b.n))
      [] b.k = "inf" -> Fin(0)
      [] OTHER -> Rat(a.n * b.d, a.d * b.n)

\* a * b
FMul(a, b) ==
    CASE a.k = "zerodiv" \/ b.k = "zerodiv" -> ZeroDivisionError
      [] a.k = "nan" \/ b.k = "nan" -> NaN
      [] a.k = "inf" /\ b.k = "inf" -> Inf(a.n * b.n)
      [] a.k = "inf" -> IF b.n = 0 THEN NaN ELSE Inf(a.n * Sign(b.n))
      [] b.k = "inf" -> IF a.n = 0 THEN NaN ELSE Inf(b.n * Sign(a.n))
      [] OTHER -> Rat(a.n * b.n, a.d * b.d)

\* float(text) for the words of the model: the value, or ValueError
ValueError == [k |-> "valueerror", n |-> 0, d |-> 1]

FloatLiterals ==
    ("0" :> Fin(0)) @@ ("5" :> Fin(5)) @@ ("inf" :> Inf(1)) @@ ("nan" :> NaN)

ParseFloat(word) ==
    IF word \in DOMAIN FloatLiterals THEN FloatLiterals[word] ELSE ValueError

(***************************************************************************)
(* Text and lists.                                                         *)
(***************************************************************************)
RECURSIVE LStrip(_)
LStrip(cell) ==
    IF cell # <<>> /\ Head(cell) = " " THEN LStrip(Tail(cell)) ELSE cell

RECURSIVE RStrip(_)
RStrip(cell) ==
    IF cell # <<>> /\ cell[Len(cell)] = " "
    THEN RStrip(SubSeq(cell, 1, Len(cell) - 1)) ELSE cell

\* cell.strip(), as a string: "" or the cell's word
Strip(cell) ==
    LET s == RStrip(LStrip(cell)) IN IF s = <<>> THEN "" ELSE s[1]

\* any(cell.strip() for cell in row)
AnyCell(row) == \E i \in 1..Len(row) : Strip(row[i]) # ""

\* values[-n:] for n > 0
LastN(values, n) ==
    IF n >= Len(values) THEN values
    ELSE SubSeq(values, Len(values) - n + 1, Len(values))

\* values[:n] for n >= 0
FirstN(values, n) ==
    IF n >= Len(values) THEN values ELSE SubSeq(values, 1, n)

\* [""] * n
EmptyCells(n) == [i \in 1..n |-> <<>>]

\* row_lookup[key] = series
SetItem(lookup, key, series) ==
    [x \in DOMAIN lookup \cup {key} |-> IF x = key THEN series ELSE lookup[x]]

\* row_lookup.setdefault(key, series)
SetDefault(lookup, key, series) ==
    IF key \in DOMAIN lookup THEN lookup ELSE SetItem(lookup, key, series)

EmptyLookup == [x \in {} |-> <<>>]


(***************************************************************************)
(* Program constants.                                                      *)
(***************************************************************************)
DEFAULT_HIGHLIGHT_LABEL == "jikoshisan"

RADAR_ITEMS ==
    << [label |-> "heikintanka:P", keys |-> <<"P", "heikintanka">>],
       [label |-> "hendotanka:V", keys |-> <<"V", "hendotanka">>],
       [label |-> "uriagekosu:Q", keys |-> <<"Q", "uriagekosu">>],
       [label |-> "uriagedaka:PQ", keys |-> <<"PQ", "uriagedaka">>],
       [label |-> "koteihi:F", keys |-> <<"F", "koteihi">>],
       [label |-> "keijorieki:G", keys |-> <<"G", "keijorieki">>],
       [label |-> "jikoshihon", keys |-> <<"jikoshihon">>] >>

PLACEHOLDER_LABEL == "misettei"

\* The messages of the ValueErrors _parse_csv raises, and of the codec's.
EmptyInputError == "no data in the CSV"
MalformedHeaderError == "not enough columns in the CSV"
NoNumericDataError == "no numeric data to chart"
UnicodeDecodeError == "'utf-8' codec can't decode byte"
MissingFileError == "select a CSV file"

(***************************************************************************)
(* _parse_csv.                                                             *)
(***************************************************************************)
\* rows = [row for row in reader if any(cell.strip() for cell in row)]
FilterRows(raw) == SelectSeq(raw, AnyCell)

\* Mutant: the header check off by one (len(headers) < 1).
HeaderTooShortOffByOne(hdr) == Len(hdr) < 1

\* len(headers) < 2
HeaderTooShort(hdr) == Len(hdr) < 2

\* label = row[0].strip() or the placeholder
RowLabel(row) ==
    IF Strip(row[1]) # "" THEN Strip(row[1]) ELSE PLACEHOLDER_LABEL

\* Mutant: the first period_count value cells instead of the last.
NumericSegmentFromStart(values, period_count) ==
    LET segment == IF period_count # 0 THEN FirstN(values, period_count) ELSE values
    IN  IF Len(segment) < period_count
        THEN segment \o EmptyCells(period_count - Len(segment))
        ELSE segment

\* The last period_count value cells, right-padded with "" to period_count.
NumericSegment(values, period_count) ==
    LET segment == IF period_count # 0 THEN LastN(values, period_count) ELSE values
    IN  IF Len(segment) < period_count
        THEN segment \o EmptyCells(period_count - Len(segment))
        ELSE segment

\* Mutant: a blank or unparseable cell stored as 0.0.
NumericValueZeroFilled(cell) ==
    LET value == Strip(cell)
    IN  IF value = "" THEN Fin(0)
        ELSE IF ParseFloat(value) = ValueError THEN Fin(0)
        ELSE ParseFloat(value)

\* One pass of the loop over numeric_segment: what is appended for a cell.
NumericValue(cell) ==
    LET value == Strip(cell)
    IN  IF value = "" THEN None
        ELSE IF ParseFloat(value) = ValueError THEN None
        ELSE ParseFloat(value)

NumericValues(segment) == [i \in 1..Len(segment) |-> NumericValue(segment[i])]

\* has_number: some float(value) returned
HasNumber(segment) ==
    \E i \in 1..Len(segment) :
        Strip(segment[i]) # "" /\ ParseFloat(Strip(segment[i])) # ValueError

\* Mutant: the label registered only when absent (setdefault).
RegisterLabelIfAbsent(lookup, label, numeric_values) ==
    SetDefault(lookup, label, numeric_values)

\* row_lookup[label] = numeric_values
RegisterLabel(lookup, label, numeric_values) == SetItem(lookup, label, numeric_values)

\* Mutant: the descriptor assigned, overwriting an entry already there.
RegisterDescriptorOverwriting(lookup, descriptor, numeric_values) ==
    IF Strip(descriptor) # ""
    THEN SetItem(lookup, Strip(descriptor), numeric_values)
    ELSE lookup

\* descriptor = descriptor.strip(); if descriptor: row_lookup.setdefault(...)
RegisterDescriptor(lookup, descriptor, numeric_values) ==
    IF Strip(descriptor) # ""
    THEN SetDefault(lookup, Strip(descriptor), numeric_values)
    ELSE lookup

RECURSIVE RegisterDescriptors(_, _, _)
RegisterDescriptors(lookup, descriptors, numeric_values) ==
    IF descriptors = <<>> THEN lookup
    ELSE RegisterDescriptors(
             RegisterDescriptor(lookup, Head(descriptors), numeric_values),
             Tail(descriptors), numeric_values)

\* descriptors = values[:metadata_columns] when metadata_columns > 0
Descriptors(values, period_count) ==
    IF Len(values) - period_count > 0
    THEN FirstN(values, Len(values) - period_count)
    ELSE <<>>

(***************************************************************************)
(* _build_dataset_options.                                                 *)
(***************************************************************************)
\* labels = [dataset.get("label", "") for dataset in datasets]
DatasetLabels(datasets) == [i \in 1..Len(datasets) |-> datasets[i].label]

\* Mutant: the first label always, the default label ignored.
HighlightLabelFirstOnly(labels) ==
    IF labels # <<>> THEN labels[1] ELSE DEFAULT_HIGHLIGHT_LABEL

HighlightLabel(labels) ==
    IF (\A i \in 1..Len(labels) : labels[i] # DEFAULT_HIGHLIGHT_LABEL) /\ labels # <<>>
    THEN labels[1]
    ELSE DEFAULT_HIGHLIGHT_LABEL

DatasetOptions(labels, highlight) ==
    [i \in 1..Len(labels) |-> [label |-> labels[i], checked |-> labels[i] = highlight]]

(***************************************************************************)
(* _build_radar_chart.                                                     *)
(***************************************************************************)
\* for key in keys: if key in row_lookup: ...; break
RECURSIVE FirstKey(_, _)
FirstKey(keys, lookup) ==
    IF keys = <<>> THEN [found |-> FALSE, key |-> ""]
    ELSE IF Head(keys) \in DOMAIN lookup THEN [found |-> TRUE, key |-> Head(keys)]
    ELSE FirstKey(Tail(keys), lookup)

\* values: the resolved series with None as 0.0, or [] when no key resolves
AxisValues(keys, lookup) ==
    LET hit == FirstKey(keys, lookup)
    IN  IF hit.found
        THEN [i \in 1..Len(lookup[hit.key]) |->
                 IF lookup[hit.key][i] # None THEN lookup[hit.key][i] ELSE Fin(0)]
        ELSE <<>>

\* max(values, default=0.0): the first item, replaced by each later item greater than it
RECURSIVE PyMaxFrom(_, _)
PyMaxFrom(best, values) ==
    IF values = <<>> THEN best
    ELSE PyMaxFrom(IF FGt(Head(values), best) THEN Head(values) ELSE best, Tail(values))

PyMax(values) == IF values = <<>> THEN Fin(0) ELSE PyMaxFrom(Head(values), Tail(values))

\* max_value = max([abs(v) for v in values], default=0.0); max_value if max_value else 1.0
AxisMaxValue(values) ==
    LET max_value == PyMax([i \in 1..Len(values) |-> FAbs(values[i])])
    IN  IF Truthy(max_value) THEN max_value ELSE Fin(1)

AxisMeta(lookup) ==
    [a \in 1..Len(RADAR_ITEMS) |->
        [label |-> RADAR_ITEMS[a].label,
         max_value |-> AxisMaxValue(AxisValues(RADAR_ITEMS[a].keys, lookup))]]

\* value: the entry of the resolved series at period_index, 0.0 when there is none
SeriesValue(keys, lookup, period_index) ==
    LET hit == FirstKey(keys, lookup)
    IN  IF hit.found /\ lookup[hit.key] # <<>> /\ period_index <= Len(lookup[hit.key])
           /\ lookup[hit.key][period_index] # None
        THEN lookup[hit.key][period_index]
        ELSE Fin(0)

\* Mutant: the division by max_value forgotten.
NormalizedUnscaled(value, max_value) ==
    IF Truthy(max_value) THEN FMul(value, Fin(100)) ELSE Fin(0)

\* normalized = (value / max_value) * 100 if max_value else 0.0
Normalized(value, max_value) ==
    IF Truthy(max_value) THEN FMul(FDiv(value, max_value), Fin(100)) ELSE Fin(0)

RadarDatasets(period_list, lookup, axis_meta) ==
    [p \in 1..Len(period_list) |->
        [label |-> period_list[p],
         data |-> [a \in 1..Len(RADAR_ITEMS) |->
                     Normalized(SeriesValue(RADAR_ITEMS[a].keys, lookup, p),
                                axis_meta[a].max_value)],
         originalData |-> [a \in 1..Len(RADAR_ITEMS) |->
                              SeriesValue(RADAR_ITEMS[a].keys, lookup, p)]]]

AxisLabels == [a \in 1..Len(RADAR_ITEMS) |-> RADAR_ITEMS[a].label]

(***************************************************************************)
(* dashboard: the view-model and the handling of one request.              *)
(***************************************************************************)
\* The *_json entries hold the value that json.dumps serialises.
InitialContext ==
    [table_headers |-> <<>>, table_rows |-> <<>>, chart_labels_json |-> <<>>,
     chart_datasets_json |-> <<>>, error |-> "", dataset_options |-> <<>>,
     default_highlight_label |-> DEFAULT_HIGHLIGHT_LABEL,
     radar_labels_json |-> <<>>, radar_datasets_json |-> <<>>,
     radar_axis_info_json |-> <<>>, radar_axis_info |-> <<>>]

\* context.update({...}) after the three steps returned
UpdatedContext(ctx) ==
    [ctx EXCEPT !.table_headers = headers, !.table_rows = table_rows,
                !.chart_labels_json = periods, !.chart_datasets_json = chart_datasets,
                !.dataset_options = options, !.default_highlight_label = highlight_label,
                !.radar_labels_json = radar_labels, !.radar_datasets_json = radar_datasets,
                !.radar_axis_info_json = radar_axis_info,
                !.radar_axis_info = radar_axis_info]

\* Mutant: the rows parsed before the failure shown beside the message.
CaughtContextWithRows(ctx, message) ==
    [ctx EXCEPT !.error = message, !.table_rows = table_rows]

\* except ValueError as exc: context["error"] = str(exc)
CaughtContext(ctx, message) == [ctx EXCEPT !.error = message]

NoBaseline == [k |-> 0, axis |-> 0, datasets |-> <<>>, lookup |-> EmptyLookup]

\* An upload: bytes that do not decode as UTF-8, or the rows csv.reader yields.
Undecodable == [utf8 |-> FALSE, data |-> <<>>]
Decodable(raw) == [utf8 |-> TRUE, data |-> raw]

SeqsUpTo(S, n) == UNION {[1..k -> S] : k \in 0..n}

\* The rows csv.reader can yield: a blank line is [], any other a label cell and value cells.
RowsOf(labelCells, valueCells) ==
    {<<>>} \cup
    UNION {{<<l>> \o v : l \in labelCells, v \in [1..n -> valueCells]} : n \in 0..(MaxCells - 1)}

Requests(files) ==
    {[method |-> "GET", has_file |-> FALSE, file |-> Undecodable],
     [method |-> "POST", has_file |-> FALSE, file |-> Undecodable],
     [method |-> "POST", has_file |-> TRUE, file |-> Undecodable]}
    \cup {[method |-> "POST", has_file |-> TRUE, file |-> Decodable(raw)] : raw \in files}

Locals ==
    /\ exc = ""
    /\ rows = <<>>
    /\ headers = <<>>
    /\ periods = <<>>
    /\ idx = 0
    /\ table_rows = <<>>
    /\ chart_datasets = <<>>
    /\ row_lookup = EmptyLookup
    /\ options = <<>>
    /\ highlight_label = ""
    /\ radar_labels = <<>>
    /\ radar_datasets = <<>>
    /\ radar_axis_info = <<>>
    /\ baseline = NoBaseline

LabelCells == {<<" ">>, <<"P">>}
ValueCells == {<<" ">>, <<"P">>, <<"0">>, <<"5">>}

Init ==
    /\ request \in Requests(SeqsUpTo(RowsOf(LabelCells, ValueCells), MaxRows))
    /\ pc = "dispatch"
    /\ context = InitialContext
    /\ Locals

\* if request.method == "POST" and request.FILES.get("grades_file"): ... elif POST: ...
Dispatch ==
    /\ pc = "dispatch"
    /\ IF request.method = "POST" /\ request.has_file
       THEN pc' = "parse" /\ UNCHANGED context
       ELSE IF request.method = "POST"
       THEN pc' = "render" /\ context' = [context EXCEPT !.error = MissingFileError]
       ELSE pc' = "render" /\ UNCHANGED context
    /\ UNCHANGED <<request, exc, rows, headers, periods, idx, table_rows,
                   chart_datasets, row_lookup, options, highlight_label,
                   radar_labels, radar_datasets, radar_axis_info, baseline>>

\* _parse_csv up to the loop: decode, read, filter, the two checks, the empty results
ParseCsvRead ==
    /\ pc = "parse"
    /\ IF ~request.file.utf8
       THEN /\ exc' = UnicodeDecodeError
            /\ pc' = "raised"
            /\ UNCHANGED <<rows, headers, periods, idx>>
       ELSE /\ rows' = FilterRows(request.file.data)
            /\ IF rows' = <<>>
               THEN /\ exc' = EmptyInputError
                    /\ pc' = "raised"
                    /\ UNCHANGED <<headers, periods, idx>>
               ELSE /\ headers' = rows'[1]
                    /\ IF HeaderTooShort(headers')
                       THEN /\ exc' = MalformedHeaderError
                            /\ pc' = "raised"
                            /\ UNCHANGED <<periods, idx>>
                       ELSE /\ periods' = Tail(headers')
                            /\ idx' = 2
                            /\ pc' = "loop"
                            /\ UNCHANGED exc
    /\ table_rows' = <<>>
    /\ chart_datasets' = <<>>
    /\ row_lookup' = EmptyLookup
    /\ UNCHANGED <<request, options, highlight_label, radar_labels, radar_datasets,
                   radar_axis_info, context, baseline>>

\* One pass of "for row in rows[1:]".
ParseCsvRow ==
    /\ pc = "loop"
    /\ idx <= Len(rows)
    /\ LET row == rows[idx]
           label == RowLabel(row)
           values == Tail(row)
           numeric_segment == NumericSegment(values, Len(periods))
           numeric_values == NumericValues(numeric_segment)
       IN  IF row = <<>>
           THEN UNCHANGED <<table_rows, chart_datasets, row_lookup>>
           ELSE /\ table_rows' = Append(table_rows, [label |-> label, values |-> values])
                /\ IF HasNumber(numeric_segment)
                   THEN /\ chart_datasets' =
                               Append(chart_datasets, [label |-> label, data |-> numeric_values])
                        /\ row_lookup' =
                               RegisterDescriptors(
                                   RegisterLabel(row_lookup, label, numeric_values),
                                   Descriptors(values, Len(periods)), numeric_values)
                   ELSE UNCHANGED <<chart_datasets, row_lookup>>
    /\ idx' = idx + 1
    /\ UNCHANGED <<request, pc, exc, rows, headers, periods, options, highlight_label,
                   radar_labels, radar_datasets, radar_axis_info, context, baseline>>

\* After the loop: if not chart_datasets: raise ...; return {...}
ParseCsvReturn ==
    /\ pc = "loop"
    /\ idx > Len(rows)
    /\ IF chart_datasets = <<>>
       THEN exc' = NoNumericDataError /\ pc' = "raised"
       ELSE pc' = "options" /\ UNCHANGED exc
    /\ UNCHANGED <<request, rows, headers, periods, idx, table_rows, chart_datasets,
                   row_lookup, options, highlight_label, radar_labels, radar_datasets,
                   radar_axis_info, context, baseline>>

\* options, highlight_label = _build_dataset_options(parsed["datasets"])
BuildDatasetOptions ==
    /\ pc = "options"
    /\ highlight_label' = HighlightLabel(DatasetLabels(chart_datasets))
    /\ options' = DatasetOptions(DatasetLabels(chart_datasets), highlight_label')
    /\ pc' = "radar"
    /\ UNCHANGED <<request, exc, rows, headers, periods, idx, table_rows, chart_datasets,
                   row_lookup, radar_labels, radar_datasets, radar_axis_info, context,
                   baseline>>

\* _build_radar_chart(parsed["periods"], parsed.get("row_lookup", {}))
BuildRadarChart ==
    /\ pc = "radar"
    /\ IF periods = <<>>
       THEN radar_labels' = <<>> /\ radar_datasets' = <<>> /\ radar_axis_info' = <<>>
       ELSE /\ radar_labels' = AxisLabels
            /\ radar_axis_info' = AxisMeta(row_lookup)
            /\ radar_datasets' = RadarDatasets(periods, row_lookup, radar_axis_info')
    /\ pc' = "update"
    /\ UNCHANGED <<request, exc, rows, headers, periods, idx, table_rows, chart_datasets,
                   row_lookup, options, highlight_label, context, baseline>>

ContextUpdate ==
    /\ pc = "update"
    /\ context' = UpdatedContext(context)
    /\ pc' = "render"
    /\ UNCHANGED <<request, exc, rows, headers, periods, idx, table_rows, chart_datasets,
                   row_lookup, options, highlight_label, radar_labels, radar_datasets,
                   radar_axis_info, baseline>>

CatchValueError ==
    /\ pc = "raised"
    /\ context' = CaughtContext(context, exc)
    /\ pc' = "render"
    /\ UNCHANGED <<request, exc, rows, headers, periods, idx, table_rows, chart_datasets,
                   row_lookup, options, highlight_label, radar_labels, radar_datasets,
                   radar_axis_info, baseline>>

\* return render(request, "App/dashboard.html", context)
Render ==
    /\ pc = "render"
    /\ pc' = "done"
    /\ UNCHANGED <<request, exc, rows, headers, periods, idx, table_rows, chart_datasets,
                   row_lookup, options, highlight_label, radar_labels, radar_datasets,
                   radar_axis_info, context, baseline>>

Next ==
    \/ Dispatch
    \/ ParseCsvRead
    \/ ParseCsvRow
    \/ ParseCsvReturn
    \/ BuildDatasetOptions
    \/ BuildRadarChart
    \/ ContextUpdate
    \/ CatchValueError
    \/ Render

Spec == Init /\ [][Next]_vars

(***************************************************************************)
(* The same handler on uploads whose cells hold the words float() reads    *)
(* as an infinity or as not-a-number.                                      *)
(***************************************************************************)
NonFiniteCells == {<<"5">>, <<"inf">>, <<"nan">>}

InitNonFinite ==
    /\ request \in Requests(SeqsUpTo(RowsOf({<<"P">>}, NonFiniteCells), MaxRows))
    /\ pc = "dispatch"
    /\ context = InitialContext
    /\ Locals

SpecNonFinite == InitNonFinite /\ [][Next]_vars

(***************************************************************************)
(* _build_dataset_options on any list of datasets, the empty one included. *)
(***************************************************************************)
OptionLabels == {DEFAULT_HIGHLIGHT_LABEL, PLACEHOLDER_LABEL, "P", "Q"}

NoRequest == [method |-> "POST", has_file |-> TRUE, file |-> Decodable(<<>>)]

OptionsInit ==
    /\ request = NoRequest
    /\ pc = "options"
    /\ context = InitialContext
    /\ chart_datasets \in
           SeqsUpTo({[label |-> l, data |-> <<Fin(5)>>] : l \in OptionLabels}, MaxDatasets)
    /\ exc = ""
    /\ rows = <<>>
    /\ headers = <<>>
    /\ periods = <<>>
    /\ idx = 0
    /\ table_rows = <<>>
    /\ row_lookup = EmptyLookup
    /\ options = <<>>
    /\ highlight_label = ""
    /\ radar_labels = <<>>
    /\ radar_datasets = <<>>
    /\ radar_axis_info = <<>>
    /\ baseline = NoBaseline

OptionsNext == BuildDatasetOptions

OptionsSpec == OptionsInit /\ [][OptionsNext]_vars

(***************************************************************************)
(* _build_radar_chart on any periods and any row lookup, run a second time *)
(* after the series resolved to one axis was multiplied by a constant.     *)
(***************************************************************************)
RadarValues == {None, Fin(0), Fin(5), Fin(-400)}

RadarSeries == SeqsUpTo(RadarValues, MaxSeries)

\* The lookups with keys among "P", "heikintanka" (axis 1, in alias order) and "V"
\* (axis 2): any series under "P", one of two under "heikintanka", one under "V".
RadarLookups ==
    LET Entry(key, choices) ==
            {EmptyLookup} \cup {SetItem(EmptyLookup, key, series) : series \in choices}
    IN  {a @@ b @@ c : a \in Entry("P", RadarSeries),
                       b \in Entry("heikintanka", {<<Fin(0)>>, <<Fin(5), Fin(-400)>>}),
                       c \in Entry("V", {<<None, Fin(-400)>>})}

RadarPeriods == {[i \in 1..n |-> <<"2021">>] : n \in 0..MaxPeriods}

RadarInit ==
    /\ request = NoRequest
    /\ pc = "radar"
    /\ context = InitialContext
    /\ periods \in RadarPeriods
    /\ row_lookup \in RadarLookups
    /\ exc = ""
    /\ rows = <<>>
    /\ headers = <<>>
    /\ idx = 0
    /\ table_rows = <<>>
    /\ chart_datasets = <<>>
    /\ options = <<>>
    /\ highlight_label = ""
    /\ radar_labels = <<>>
    /\ radar_datasets = <<>>
    /\ radar_axis_info = <<>>
    /\ baseline = NoBaseline

\* series * k, None staying None
ScaledSeries(series, k) ==
    [i \in 1..Len(series) |-> IF series[i] = None THEN None ELSE FMul(Fin(k), series[i])]

\* The experiment: keep the first result, multiply the series resolved to one axis by k.
ScaleSeries ==
    /\ pc = "update"
    /\ baseline.k = 0
    /\ \E a \in 1..Len(RADAR_ITEMS), k \in 2..MaxScale :
          LET hit == FirstKey(RADAR_ITEMS[a].keys, row_lookup)
          IN  /\ hit.found
              /\ baseline' = [k |-> k, axis |-> a, datasets |-> radar_datasets,
                              lookup |-> row_lookup]
              /\ row_lookup' = SetItem(row_lookup, hit.key,
                                       ScaledSeries(row_lookup[hit.key], k))
    /\ pc' = "radar"
    /\ UNCHANGED <<request, exc, rows, headers, periods, idx, table_rows, chart_datasets,
                   options, highlight_label, radar_labels, radar_datasets,
                   radar_axis_info, context>>

RadarNext == BuildRadarChart \/ ScaleSeries

RadarSpec == RadarInit /\ [][RadarNext]_vars

(***************************************************************************)
(* The claims.  What follows is stated in the claims' own terms, on the    *)
(* upload and on the results, without the operators of the parser.         *)
(***************************************************************************)
\* A cell is blank when it holds nothing but white space; else it has one word.
IsBlank(cell) == \A i \in 1..Len(cell) : cell[i] = " "
WordOf(cell) == cell[CHOOSE i \in 1..Len(cell) : cell[i] # " "]

\* A cell parses as a number when it is not blank and float() reads its word.
Parses(cell) == ~IsBlank(cell) /\ WordOf(cell) \in DOMAIN FloatLiterals

\* The entry a cell gives in a series: its number, or None.
EntryOf(cell) == IF Parses(cell) THEN FloatLiterals[WordOf(cell)] ELSE None

\* The label of a row: its first cell trimmed, or the placeholder.
LabelOf(row) == IF IsBlank(row[1]) THEN PLACEHOLDER_LABEL ELSE WordOf(row[1])

\* The rows of the upload with a non-blank cell, in order.
Surviving(raw) == SelectSeq(raw, LAMBDA row : \E i \in 1..Len(row) : ~IsBlank(row[i]))

\* Cell i (1..P) of the numeric segment of a row with m value cells, for period count P.
SegmentCell(row, P, i) ==
    LET m == Len(row) - 1
    IN  IF m >= P THEN row[1 + (m - P) + i]
        ELSE IF i <= m THEN row[1 + i]
        ELSE <<>>

SeriesOf(row, P) == [i \in 1..P |-> EntryOf(SegmentCell(row, P, i))]

IsNumericRow(row, P) == \E i \in 1..P : Parses(SegmentCell(row, P, i))

\* The trimmed non-empty descriptors of a row: its value cells before the last P.
DescriptorsOf(row, P) ==
    {WordOf(row[1 + c]) : c \in {c \in 1..(Len(row) - 1 - P) : ~IsBlank(row[1 + c])}}

\* The data rows the loop has been through: rows[2..idx-1] (rows[1] is the header).
Processed == IF idx >= 2 THEN 2..(idx - 1) ELSE {}

\* Those of them with a parseable number in the numeric segment, in source order.
RECURSIVE NumericRowsUpTo(_)
NumericRowsUpTo(r) ==
    IF r < 2 THEN <<>>
    ELSE IF IsNumericRow(rows[r], Len(periods)) THEN Append(NumericRowsUpTo(r - 1), r)
    ELSE NumericRowsUpTo(r - 1)

NumericRows == IF idx >= 2 THEN NumericRowsUpTo(idx - 1) ELSE <<>>

ParseEnded == pc \in {"raised", "options"}

(***************************************************************************)
(* C1.                                                                     *)
(***************************************************************************)
\* The outcome C1 gives for an upload whose surviving rows are s: the error in the
\* fixed precedence, or a result with at least one dataset.
C1_Outcome(s) ==
    IF s = <<>> THEN pc = "raised" /\ exc = EmptyInputError
    ELSE IF Len(s[1]) < 2 THEN pc = "raised" /\ exc = MalformedHeaderError
    ELSE IF chart_datasets = <<>> THEN pc = "raised" /\ exc = NoNumericDataError
    ELSE pc = "options" /\ exc = "" /\ Len(chart_datasets) >= 1

C2_Emitted ==
    /\ Len(table_rows) = Cardinality(Processed)
    /\ Len(chart_datasets) = Len(NumericRows)
    /\ \A j \in 1..Len(chart_datasets) :
          LET row == rows[NumericRows[j]]
              data == chart_datasets[j].data
          IN  /\ chart_datasets[j].label = LabelOf(row)
              /\ Len(data) = Len(periods)
              /\ \A i \in 1..Len(data) :
                    LET cell == SegmentCell(row, Len(periods), i)
                    IN  /\ (data[i] = None) <=> ~Parses(cell)
                        /\ (Parses(cell) /\ WordOf(cell) = "0") => data[i] = Fin(0)

\* A pass over a row without a parseable number adds a display row and leaves the
\* datasets and the row lookup as they were.
C2_SilentRow ==
    (pc = "loop" /\ idx <= Len(rows) /\ ~IsNumericRow(rows[idx], Len(periods)))
        => /\ chart_datasets' = chart_datasets
           /\ row_lookup' = row_lookup
           /\ Len(table_rows') = Len(table_rows) + 1

\* C2: a dataset is emitted for a row iff a cell of its numeric segment parses; a
\* blank or unparseable cell is stored as None, a parsed zero as 0.0; a row with no
\* parseable cell changes neither the datasets nor the row lookup and is displayed.
C2_DatasetIffNumber == []C2_Emitted /\ [][C2_SilentRow]_vars

\* Parsing ended with a row that was displayed but not charted, after a row charted
\* with a None entry and a row charted with a zero.
C2_Witness ==
    /\ pc = "options"
    /\ Len(table_rows) > Len(chart_datasets)
    /\ ~IsNumericRow(rows[Len(rows)], Len(periods))
    /\ \E j \in 1..Len(chart_datasets) :
          \E i \in 1..Len(periods) : chart_datasets[j].data[i] = None
    /\ \E j \in 1..Len(chart_datasets) :
          \E i \in 1..Len(periods) : chart_datasets[j].data[i] = Fin(0)

(***************************************************************************)
(* C3.                                                                     *)
(***************************************************************************)
\* C3: the series of a row with m value cells has P entries, entry i from value cell
\* m-P+i when m >= P and from value cell i (None beyond m) when m < P; so every
\* dataset's data and every series of the row lookup has the length of the periods.
C3_SeriesAlignment ==
    /\ Len(chart_datasets) = Len(NumericRows)
    /\ \A j \in 1..Len(chart_datasets) :
          LET row == rows[NumericRows[j]]
              m == Len(row) - 1
              P == Len(periods)
              data == chart_datasets[j].data
          IN  /\ Len(data) = P
              /\ \A i \in 1..Len(data) :
                    data[i] = IF m >= P THEN EntryOf(row[1 + (m - P + i)])
                              ELSE IF i <= m THEN EntryOf(row[1 + i])
                              ELSE None
    /\ \A key \in DOMAIN row_lookup : Len(row_lookup[key]) = Len(periods)

\* Parsing ended with a charted row longer than the periods: a descriptor that
\* float() would read as a number stands before its one numeric cell.
C3_Witness ==
    /\ pc = "options"
    /\ \E j \in 1..Len(NumericRows) :
          LET row == rows[NumericRows[j]]
          IN  /\ Len(row) - 1 > Len(periods)
              /\ Parses(row[2])
              /\ EntryOf(row[2]) # EntryOf(row[3])

(***************************************************************************)
(* C4 and C10.                                                             *)
(***************************************************************************)
\* The charted rows (positions in NumericRows) with primary label key, and those
\* carrying key as a descriptor; the series of a charted row.
LabelRows(key) ==
    {j \in 1..Len(NumericRows) : LabelOf(rows[NumericRows[j]]) = key}

DescriptorRows(key) ==
    {j \in 1..Len(NumericRows) : key \in DescriptorsOf(rows[NumericRows[j]], Len(periods))}

DataOf(j) == SeriesOf(rows[NumericRows[j]], Len(periods))

Least(S) == CHOOSE x \in S : \A y \in S : x <= y
Greatest(S) == CHOOSE x \in S : \A y \in S : y <= x

\* C4 as stated: a key first registered as a descriptor keeps the series of the row
\* that registered it, whatever later rows do (same descriptor, or the key as label).
C4_AsStated ==
    \A key \in DOMAIN row_lookup :
        (/\ DescriptorRows(key) # {}
         /\ \A j \in LabelRows(key) : j > Least(DescriptorRows(key)))
            => row_lookup[key] = DataOf(Least(DescriptorRows(key)))

\* C4 amended: registering a descriptor never overwrites a key already present, so a
\* key that is no charted row's primary label keeps the series of the first row that
\* carried it as a descriptor, and a key that is some row's primary label holds the
\* series of such a row; only a later row with the key as primary label replaces it.
C4_DescriptorFirstWins ==
    \A key \in DOMAIN row_lookup :
        /\ LabelRows(key) \cup DescriptorRows(key) # {}
        /\ IF LabelRows(key) = {}
           THEN row_lookup[key] = DataOf(Least(DescriptorRows(key)))
           ELSE \E j \in LabelRows(key) : row_lookup[key] = DataOf(j)

\* Parsing ended with two charted rows of different series carrying the same
\* descriptor, which is no row's label.
C4_Witness ==
    /\ pc = "options"
    /\ \E key \in DOMAIN row_lookup :
          /\ LabelRows(key) = {}
          /\ \E j1, j2 \in DescriptorRows(key) : j1 < j2 /\ DataOf(j1) # DataOf(j2)

\* C10: the datasets hold one entry per charted row in source order, and the row
\* lookup maps a primary label to the series of the last charted row with that
\* label, also when the key was registered before as a label or as a descriptor.
C10_LabelLastWins ==
    /\ Len(chart_datasets) = Len(NumericRows)
    /\ \A j \in 1..Len(chart_datasets) :
          chart_datasets[j].label = LabelOf(rows[NumericRows[j]])
    /\ \A j \in 1..Len(NumericRows) :
          LET key == LabelOf(rows[NumericRows[j]])
          IN  /\ key \in DOMAIN row_lookup
              /\ row_lookup[key] = DataOf(Greatest(LabelRows(key)))

\* Parsing ended with two charted rows of the same label and different series.
C10_Witness ==
    /\ pc = "options"
    /\ \E j1, j2 \in 1..Len(NumericRows) :
          /\ j1 < j2
          /\ LabelOf(rows[NumericRows[j1]]) = LabelOf(rows[NumericRows[j2]])
          /\ DataOf(j1) # DataOf(j2)

(***************************************************************************)
(* C9.                                                                     *)
(***************************************************************************)
C9_EmptyView ==
    /\ context.table_headers = <<>>
    /\ context.table_rows = <<>>
    /\ context.chart_datasets_json = <<>>
    /\ context.dataset_options = <<>>
    /\ context.radar_labels_json = <<>>
    /\ context.radar_datasets_json = <<>>
    /\ context.radar_axis_info_json = <<>>
    /\ context.radar_axis_info = <<>>

\* C9: a view-model with an error message has empty table headers, table rows, chart
\* datasets, dataset options and radar data; one with any of them has no message.
\* A POST that fails ends with a message, every other request without one.
C9_AllOrNothing ==
    /\ context.error # "" => C9_EmptyView
    /\ ~C9_EmptyView => context.error = ""
    /\ pc = "done" =>
          (context.error # "" <=>
              (request.method = "POST" /\ (~request.has_file \/ exc # "")))

\* A request ended with NoNumericDataError after the parser had built display rows.
C9_Witness ==
    /\ pc = "done"
    /\ context.error = NoNumericDataError
    /\ table_rows # <<>>
    /\ C9_EmptyView

(***************************************************************************)
(* C5 and C6.                                                              *)
(***************************************************************************)
C5_Options ==
    /\ Len(options) = Len(chart_datasets)
    /\ \A i \in 1..Len(options) : options[i].label = chart_datasets[i].label

C5_HasDefault == \E i \in 1..Len(chart_datasets) :
                     chart_datasets[i].label = DEFAULT_HIGHLIGHT_LABEL

\* C5 as stated: one option per dataset in order; the highlight is the default label
\* when a dataset has it, else the first label, and "" for no datasets.
C5_AsStated ==
    pc = "radar" =>
        /\ C5_Options
        /\ highlight_label =
               IF C5_HasDefault THEN DEFAULT_HIGHLIGHT_LABEL
               ELSE IF chart_datasets # <<>> THEN chart_datasets[1].label
               ELSE ""

\* C5 amended: the same, except that for no datasets the highlight is the default
\* label (and the options are empty).
C5_HighlightChoice ==
    pc = "radar" =>
        /\ C5_Options
        /\ highlight_label =
               IF C5_HasDefault THEN DEFAULT_HIGHLIGHT_LABEL
               ELSE IF chart_datasets # <<>> THEN chart_datasets[1].label
               ELSE DEFAULT_HIGHLIGHT_LABEL

\* The options were built for datasets without the default label, whose first label
\* became the highlight although a later label differs.
C5_Witness ==
    /\ pc = "radar"
    /\ Len(chart_datasets) >= 2
    /\ ~C5_HasDefault
    /\ highlight_label = chart_datasets[1].label
    /\ chart_datasets[2].label # chart_datasets[1].label

\* C6: for datasets that are not empty, exactly one option is checked, and it is the
\* option whose label is the highlight label.
C6_ExactlyOneChecked ==
    options # <<>> =>
        /\ Cardinality({i \in 1..Len(options) : options[i].checked}) = 1
        /\ \A i \in 1..Len(options) :
              options[i].checked <=> options[i].label = highlight_label

(***************************************************************************)
(* C7.                                                                     *)
(***************************************************************************)
C7_Positive(x) == (x.k = "fin" /\ x.n > 0) \/ (x.k = "inf" /\ x.n > 0)

C7_InRange(x) == x.k = "fin" /\ -100 * x.d <= x.n /\ x.n <= 100 * x.d

C7_SameSign(x, y) == x.k = "fin" /\ y.k = "fin" /\ Sign(x.n) = Sign(y.n)

\* C7: every axis has a max_value above 0, and every normalized value lies in
\* [-100, 100] with the sign of its original value.
C7_Normalized ==
    /\ \A a \in 1..Len(radar_axis_info) : C7_Positive(radar_axis_info[a].max_value)
    /\ \A p \in 1..Len(radar_datasets) :
          \A a \in 1..Len(radar_datasets[p].data) :
              /\ C7_InRange(radar_datasets[p].data[a])
              /\ C7_SameSign(radar_datasets[p].data[a], radar_datasets[p].originalData[a])

(***************************************************************************)
(* C8.                                                                     *)
(***************************************************************************)
Rebuilt == pc = "update" /\ baseline.k > 0

ScaledKey == FirstKey(RADAR_ITEMS[baseline.axis].keys, baseline.lookup).key

\* Every product k * v of the scaling is a finite float, computed without overflow.
C8_ExactScaling ==
    \A i \in 1..Len(row_lookup[ScaledKey]) :
        /\ baseline.lookup[ScaledKey][i].k \in {"none", "fin"}
        /\ row_lookup[ScaledKey][i].k \in {"none", "fin"}

C8_Unchanged ==
    /\ Len(radar_datasets) = Len(baseline.datasets)
    /\ \A p \in 1..Len(radar_datasets) :
          /\ radar_datasets[p].data = baseline.datasets[p].data
          /\ \A a \in 1..Len(RADAR_ITEMS) :
                radar_datasets[p].originalData[a] =
                    IF a = baseline.axis
                    THEN FMul(Fin(baseline.k), baseline.datasets[p].originalData[a])
                    ELSE baseline.datasets[p].originalData[a]

=============================================================================
